---- MODULE Spec2Model ----
(***************************************************************************)
(* icanhazlb-api: the request handler that derives an IPv4 address from    *)
(* the request's Host header and creates an IcanhazlbService custom        *)
(* resource for it.  The program modelled is the variant with the          *)
(* embedded-pattern resolver (src/unnamed/part_002); src/main.go is an     *)
(* earlier draft whose createCRDInKubernetes assigns the single result of  *)
(* rest.Request.Do to two variables and therefore does not build.          *)
(*                                                                         *)
(* Strings that the code inspects or builds character by character         *)
(* (hostnames, addresses, resource names) are sequences of one-character   *)
(* strings; fixed policy values are plain strings.                         *)
(***************************************************************************)
EXTENDS Integers, Sequences, FiniteSets, TLC

VARIABLES
    strictOctets,   \* build property: net.ParseIP rejects octets with leading zeros (Go >= 1.17)
    probe,          \* resolver harness: the hostname handed to parseIPAddressFromHostname
    probeOut,       \* resolver harness: what the resolver returned and printed
    pc,             \* per request: "idle", "posting", "responded", "done"
    host,           \* per request: r.Host as received
    hostname,       \* per request: local hostname of the handler
    ipAddress,      \* per request: local ipAddress of the handler
    diag,           \* per request: what the resolver printed
    doc,            \* per request: the document handed to the REST client
    posts,          \* per request: number of create requests issued to the store
    apiResult,      \* per request: the rest.Result of the create
    softSignal,     \* per request: "Success" / "Failure" printed from the response body
    status,         \* per request: HTTP status written to the caller
    payload,        \* per request: body written to the caller
    store           \* the resource store: the objects created so far

vars == <<strictOctets, probe, probeOut, pc, host, hostname, ipAddress, diag, doc,
          posts, apiResult, softSignal, status, payload, store>>

handlerVars == <<pc, host, hostname, ipAddress, diag, doc, posts, apiResult,
                 softSignal, status, payload, store>>

-----------------------------------------------------------------------------
(* Characters and string helpers                                           *)

DigitChars == <<"0", "1", "2", "3", "4", "5", "6", "7", "8", "9">>

Digits == {DigitChars[i] : i \in 1..Len(DigitChars)}

Delims == {".", "-", "_"}

DigitVal(c) == (CHOOSE i \in 1..Len(DigitChars) : DigitChars[i] = c) - 1

RECURSIVE Atoi(_)
Atoi(s) ==
    IF s = <<>> THEN 0
    ELSE 10 * Atoi(SubSeq(s, 1, Len(s) - 1)) + DigitVal(s[Len(s)])

RECURSIVE Itoa(_)
Itoa(n) ==
    IF n < 10 THEN <<DigitChars[n + 1]>>
    ELSE Itoa(n \div 10) \o <<DigitChars[(n % 10) + 1]>>

\* strings.ReplaceAll(s, old, new) for one-character old and new
ReplaceAll(s, old, new) == [i \in 1..Len(s) |-> IF s[i] = old THEN new ELSE s[i]]

\* index of the first occurrence of character c in s, 0 when there is none
IndexOf(s, c) ==
    IF \E i \in 1..Len(s) : s[i] = c
    THEN CHOOSE i \in 1..Len(s) : s[i] = c /\ \A j \in 1..(i - 1) : s[j] # c
    ELSE 0

\* strings.Split(s, c) for a one-character separator
RECURSIVE Split(_, _)
Split(s, c) ==
    LET i == IndexOf(s, c)
    IN  IF i = 0 THEN <<s>>
        ELSE <<SubSeq(s, 1, i - 1)>> \o Split(SubSeq(s, i + 1, Len(s)), c)

RECURSIVE Join(_, _)
Join(parts, c) ==
    IF Len(parts) = 0 THEN <<>>
    ELSE IF Len(parts) = 1 THEN parts[1]
    ELSE parts[1] \o <<c>> \o Join(Tail(parts), c)

-----------------------------------------------------------------------------
(* Address Resolver                                                        *)

AddressNotFound == "Failed to parse IP address from hostname"

AddressInvalid == "Failed to parse IPv4 address from hostname"

NoDiag == "none"

NilIP == <<>>

\* extractHostnameFromRequest: strings.SplitN(r.Host, ":", 2)[0]
extractHostnameFromRequest(h) ==
    LET i == IndexOf(h, ":")
    IN  IF i = 0 THEN h ELSE SubSeq(h, 1, i - 1)

\* number of consecutive digits of h starting at position p
RECURSIVE DigitRun(_, _)
DigitRun(h, p) ==
    IF p > Len(h) \/ h[p] \notin Digits THEN 0 ELSE 1 + DigitRun(h, p + 1)

\* `\d{1,3}S` at position p: the length consumed, 0 when it does not match.
\* The repetition is greedy and the next item is a delimiter, so the whole
\* digit run has to be consumed and has to be 1..3 long.
OctetSep(h, p, S) ==
    LET n == DigitRun(h, p)
    IN  IF n \in 1..3 /\ p + n <= Len(h) /\ h[p + n] \in S THEN n + 1 ELSE 0

\* k times `\d{1,3}S` from position p on: the position after them, 0 for no match
RECURSIVE SepGroups(_, _, _, _)
SepGroups(h, p, S, k) ==
    IF k = 0 THEN p
    ELSE IF OctetSep(h, p, S) = 0 THEN 0
    ELSE SepGroups(h, p + OctetSep(h, p, S), S, k - 1)

\* the final greedy `\d{1,3}` at position q of a match that started at p:
\* the length of the whole match, 0 for no match
LastOctet(h, p, q) ==
    IF q = 0 \/ DigitRun(h, q) = 0 THEN 0
    ELSE q - p + (IF DigitRun(h, q) > 3 THEN 3 ELSE DigitRun(h, q))

\* `(\d{1,3}S){3}\d{1,3}` at position p: the length matched, 0 for no match
AltMatch(h, p, S) == LastOctet(h, p, SepGroups(h, p, S, 3))

\* the four alternatives of ipv4RE, in the order written
ipv4RE == <<{"."}, {"-"}, {"_"}, {"-", "_", "."}>>

\* the first of two match lengths that is a match
OrElse(m, other) == IF m > 0 THEN m ELSE other

\* the alternatives from the a-th on, tried in order at position p
RECURSIVE FirstAlt(_, _, _)
FirstAlt(h, p, a) ==
    IF a > Len(ipv4RE) THEN 0
    ELSE OrElse(AltMatch(h, p, ipv4RE[a]), FirstAlt(h, p, a + 1))

\* the match of ipv4RE that starts at p (first alternative that matches), 0 for none
MatchAt(h, p) == FirstAlt(h, p, 1)

\* the leftmost match that starts at p or later, "" when there is none
RECURSIVE FindFrom(_, _)
RECURSIVE MatchOrNext(_, _, _)
MatchOrNext(h, p, n) == IF n > 0 THEN SubSeq(h, p, p + n - 1) ELSE FindFrom(h, p + 1)

FindFrom(h, p) == IF p > Len(h) THEN <<>> ELSE MatchOrNext(h, p, MatchAt(h, p))

\* re.FindString(hostname): the leftmost match, "" when there is none
FindString(h) == FindFrom(h, 1)

\* a plausible slip: only '-' is turned into '.'
NormalizeDashes(m) == [i \in 1..Len(m) |-> IF m[i] = "-" THEN "." ELSE m[i]]

\* strings.Map over the match: every delimiter becomes '.'
NormalizeDelims(m) == [i \in 1..Len(m) |-> IF m[i] \in Delims THEN "." ELSE m[i]]

\* one field of a dotted quad, as net.ParseIP reads it
OctetOK(f) ==
    /\ Len(f) >= 1
    /\ \A i \in 1..Len(f) : f[i] \in Digits
    /\ Atoi(f) <= 255
    /\ (strictOctets => ~(Len(f) > 1 /\ f[1] = "0"))

\* net.ParseIP on a string without ':' : the four octets, or NilIP
ParseIP(s) ==
    LET fs == Split(s, ".")
    IN  IF Len(fs) = 4 /\ \A i \in 1..4 : OctetOK(fs[i])
        THEN [i \in 1..4 |-> Atoi(fs[i])]
        ELSE NilIP

\* net.IP.To4 of an address parsed from dotted-quad text: the same four octets
To4(ip) == ip

\* net.IP.String of an IPv4 address
IPString(ip) == Join([i \in 1..4 |-> Itoa(ip[i])], ".")

\* a plausible slip: both failure branches print the same line
parseOneMessage(h) ==
    LET match == FindString(h)
    IN  IF match # <<>>
        THEN LET parsedIP == ParseIP(NormalizeDelims(match))
             IN  IF parsedIP = NilIP \/ To4(parsedIP) # parsedIP
                 THEN [ip |-> <<>>, diag |-> AddressInvalid]
                 ELSE [ip |-> IPString(parsedIP), diag |-> NoDiag]
        ELSE [ip |-> <<>>, diag |-> AddressInvalid]

\* parseIPAddressFromHostname: the string returned and the line printed
parseIPAddressFromHostname(h) ==
    LET match == FindString(h)
    IN  IF match # <<>>
        THEN LET parsedIP == ParseIP(NormalizeDelims(match))
             IN  IF parsedIP = NilIP \/ To4(parsedIP) # parsedIP
                 THEN [ip |-> <<>>, diag |-> AddressInvalid]
                 ELSE [ip |-> IPString(parsedIP), diag |-> NoDiag]
        ELSE [ip |-> <<>>, diag |-> AddressNotFound]

-----------------------------------------------------------------------------
(* Resource Submitter: the document                                        *)

NamePrefix == <<"i", "c", "a", "n", "h", "a", "z", "l", "b", "-">>

SvcSuffix == <<"-", "s", "v", "c">>

IngSuffix == <<"-", "i", "n", "g">>

ServiceNameLabel == "kubernetes.io/service-name"

UpstreamVhost == "nginx.ingress.kubernetes.io/upstream-vhost"

\* a plausible slip: the hostname is passed on as received
rawHostname(h) == h

\* strings.ReplaceAll(hostname, "_", "-") in the handler
svcFriendlyHostname(h) == ReplaceAll(h, "_", "-")

\* strings.ReplaceAll(ipAddress, ".", "-") in the handler
svcFriendlyIp(ip) == ReplaceAll(ip, ".", "-")

\* a plausible slip: the name is cut before the last character of the address
resourceNameCut(sip) == NamePrefix \o SubSeq(sip, 1, Len(sip) - 1)

\* ObjectMeta.Name: fmt.Sprintf("icanhazlb-%s", svcFriendlyIp)
resourceName(sip) == NamePrefix \o sip

\* EndpointSlices.Name: fmt.Sprintf("icanhazlb-%s-svc", svcFriendlyIp)
endpointSliceName(sip) == NamePrefix \o sip \o SvcSuffix

\* EndpointSlices.Labels["kubernetes.io/service-name"]
endpointSliceLabel(sip) == NamePrefix \o sip \o SvcSuffix

\* Services.Name
serviceName(sip) == NamePrefix \o sip \o SvcSuffix

\* Services.Labels["kubernetes.io/service-name"]
serviceLabel(sip) == NamePrefix \o sip \o SvcSuffix

\* Ingresses.Name: fmt.Sprintf("icanhazlb-%s-ing", svcFriendlyIp)
ingressName(sip) == NamePrefix \o sip \o IngSuffix

\* a plausible slip: the backend is given the ingress's name
backendIngressName(sip) == NamePrefix \o sip \o IngSuffix

\* Ingresses.Rules[0].HTTP.Paths[0].Backend.Service.Name
backendServiceName(sip) == NamePrefix \o sip \o SvcSuffix

HttpPort == [name |-> "http", port |-> 80]

\* the IcanhazlbService literal of createCRDInKubernetes(clientset, ip, h, sip)
IcanhazlbService(ip, h, sip) ==
    [ apiVersion |-> "service.icanhazlb.com/v1alpha1",
      kind       |-> "IcanhazlbService",
      metadata   |-> [name |-> resourceName(sip), namespace |-> "default"],
      spec       |->
        [ endpointSlices |->
            [ name        |-> endpointSliceName(sip),
              addressType |-> "IPv4",
              ports       |-> <<HttpPort>>,
              endpoints   |-> <<[addresses |-> <<ip>>]>>,
              labels      |-> (ServiceNameLabel :> endpointSliceLabel(sip)) ],
          services |->
            [ name       |-> serviceName(sip),
              type       |-> "ClusterIP",
              ipFamilies |-> <<"IPv4">>,
              ports      |-> <<HttpPort>>,
              labels     |-> (ServiceNameLabel :> serviceLabel(sip)) ],
          ingresses |->
            [ name             |-> ingressName(sip),
              annotations      |-> (UpstreamVhost :> "retro.adrenlinerush.net"),
              ingressClassName |-> "nginx",
              rules            |->
                << [ host |-> h,
                     http |-> [paths |->
                        << [ path     |-> "/",
                             pathType |-> "ImplementationSpecific",
                             backend  |-> [service |->
                                [ name |-> backendServiceName(sip),
                                  port |-> [number |-> 80] ]] ] >>] ] >> ] ] ]

\* the value of a request's doc before the handler has built one
NoDoc == [kind |-> "none"]

-----------------------------------------------------------------------------
(* The resource store, as the REST client sees it                          *)

\* what the body of a 2xx response can be: a JSON object with a managedFields
\* entry, one without, or bytes json.Unmarshal cannot decode into decodedJSON
Bodies == {"managed", "unmanaged", "undecodable"}

\* request.Do returns an error and no object is created: the store is
\* unreachable, or it answers with a non-2xx status other than a name conflict
Failures == {"failed"}

NoResult == [err |-> "pending", body |-> "none"]

\* the store holds an object of that name
Exists(s, name) == \E i \in 1..Len(s) : s[i].metadata.name = name

\* number of objects of that name in the store
Count(s, name) == Cardinality({i \in 1..Len(s) : s[i].metadata.name = name})

-----------------------------------------------------------------------------
(* Requests                                                                *)

NumReq == 2

Requests == 1..NumReq

StatusOK == 200

StatusInternalServerError == 500

NoPayload == [kind |-> "none"]

\* the Host headers the requests are drawn from
HostDash == <<"1", "0", "-", "0", "-", "0", "-", "1", ".", "x">>

HostUnderscorePort == <<"1", "0", "_", "0", "_", "0", "_", "1", ".", "x", ":", "8", "0">>

HostLiteral == <<"1", "0", ".", "0", ".", "0", ".", "2">>

HostOutOfRange == <<"9", "9", "9", "-", "1", "-", "1", "-", "1", ".", "x">>

HostNoPattern == <<"f", "o", "o", ".", "x">>

Hosts == {HostDash, HostUnderscorePort, HostLiteral, HostOutOfRange, HostNoPattern}

\* json.Marshal of the document: no field of IcanhazlbService can fail to encode
Marshal(d) == [err |-> "nil", raw |-> d]

\* mux.HandleFunc("/") up to request.Do: resolve, build, serialize, issue the create
Receive(r) ==
    /\ pc[r] = "idle"
    /\ \E h \in Hosts :
          LET hn  == extractHostnameFromRequest(h)
              res == parseIPAddressFromHostname(hn)
              d   == IcanhazlbService(res.ip, svcFriendlyHostname(hn), svcFriendlyIp(res.ip))
              m   == Marshal(d)
          IN  /\ host' = [host EXCEPT ![r] = h]
              /\ hostname' = [hostname EXCEPT ![r] = hn]
              /\ ipAddress' = [ipAddress EXCEPT ![r] = res.ip]
              /\ diag' = [diag EXCEPT ![r] = res.diag]
              /\ doc' = [doc EXCEPT ![r] = d]
              /\ IF m.err # "nil"
                 THEN /\ pc' = [pc EXCEPT ![r] = "done"]
                      /\ status' = [status EXCEPT ![r] = StatusInternalServerError]
                      /\ payload' = [payload EXCEPT ![r] =
                            [kind |-> "text", msg |-> "failed to marshal CRD"]]
                      /\ posts' = posts
                 ELSE /\ pc' = [pc EXCEPT ![r] = "posting"]
                      /\ posts' = [posts EXCEPT ![r] = @ + 1]
                      /\ UNCHANGED <<status, payload>>
    /\ UNCHANGED <<strictOctets, probe, probeOut, apiResult, softSignal, store>>

\* the store handles the create: a blind create, refused when the name exists
StoreCreate(r) ==
    /\ pc[r] = "posting"
    /\ IF Exists(store, doc[r].metadata.name)
       THEN /\ apiResult' = [apiResult EXCEPT ![r] = [err |-> "AlreadyExists", body |-> "none"]]
            /\ store' = store
       ELSE /\ \E b \in Bodies :
                  apiResult' = [apiResult EXCEPT ![r] = [err |-> "nil", body |-> b]]
            /\ store' = Append(store, doc[r])
    /\ pc' = [pc EXCEPT ![r] = "responded"]
    /\ UNCHANGED <<strictOctets, probe, probeOut, host, hostname, ipAddress, diag, doc,
                   posts, softSignal, status, payload>>

\* the create does not reach the store, or the store refuses the document
StoreFail(r) ==
    /\ pc[r] = "posting"
    /\ \E f \in Failures :
          apiResult' = [apiResult EXCEPT ![r] = [err |-> f, body |-> "none"]]
    /\ pc' = [pc EXCEPT ![r] = "responded"]
    /\ UNCHANGED <<strictOctets, probe, probeOut, host, hostname, ipAddress, diag, doc,
                   posts, softSignal, status, payload, store>>

\* a plausible slip: the create is issued again after an error
RetryCreate(r, msg) ==
    /\ pc' = [pc EXCEPT ![r] = "posting"]
    /\ posts' = [posts EXCEPT ![r] = @ + 1]
    /\ UNCHANGED <<status, payload, softSignal>>

\* a plausible slip: the error of createCRDInKubernetes is dropped
IgnoreFailure(r, msg) ==
    /\ pc' = [pc EXCEPT ![r] = "done"]
    /\ status' = [status EXCEPT ![r] = StatusOK]
    /\ payload' = [payload EXCEPT ![r] =
          [kind |-> "json", ipAddress |-> ipAddress[r], hostname |-> hostname[r]]]
    /\ UNCHANGED <<posts, softSignal>>

\* createCRDInKubernetes returns an error; the handler answers http.Error(..., 500)
ReportFailure(r, msg) ==
    /\ pc' = [pc EXCEPT ![r] = "done"]
    /\ status' = [status EXCEPT ![r] = StatusInternalServerError]
    /\ payload' = [payload EXCEPT ![r] = [kind |-> "text", msg |-> msg]]
    /\ UNCHANGED <<posts, softSignal>>

\* createCRDInKubernetes after request.Do, and the rest of the handler
Finish(r) ==
    /\ pc[r] = "responded"
    /\ IF apiResult[r].err # "nil"
       THEN ReportFailure(r, "failed to create CRD")
       ELSE IF apiResult[r].body = "undecodable"
       THEN ReportFailure(r, "failed to unmarshal JSON response")
       ELSE /\ softSignal' = [softSignal EXCEPT ![r] =
                  IF apiResult[r].body = "managed" THEN "Success" ELSE "Failure"]
            /\ pc' = [pc EXCEPT ![r] = "done"]
            /\ status' = [status EXCEPT ![r] = StatusOK]
            /\ payload' = [payload EXCEPT ![r] =
                  [kind |-> "json", ipAddress |-> ipAddress[r], hostname |-> hostname[r]]]
            /\ posts' = posts
    /\ UNCHANGED <<strictOctets, probe, probeOut, host, hostname, ipAddress, diag, doc,
                   apiResult, store>>

-----------------------------------------------------------------------------
(* Resolver harness: hostnames handed to parseIPAddressFromHostname alone  *)

EdgeOctets ==
    { <<"0">>, <<"1", "0">>, <<"2", "5", "5">>, <<"2", "5", "6">>, <<"9", "9", "9">>,
      <<"1", "2", "3", "4">>, <<"0", "7">> }

MidOctets == { <<"0">>, <<"3", "0", "0">> }

Prefixes == { <<>>, <<"a">>, <<"9", "9", "9", "-">> }

Suffixes == { <<>>, <<".", "x">> }

\* pre o1 d1 o2 d2 o3 d3 o4 suf: four digit groups around three delimiters
IsQuadProbe(h) ==
    \E pre \in Prefixes, o1 \in EdgeOctets, d1 \in Delims, o2 \in MidOctets :
      \E d2 \in Delims, o3 \in MidOctets, d3 \in Delims, o4 \in EdgeOctets :
        \E suf \in Suffixes :
          h = pre \o o1 \o <<d1>> \o o2 \o <<d2>> \o o3 \o <<d3>> \o o4 \o suf

OtherProbes ==
    { <<>>,
      <<"f", "o", "o", ".", "x">>,
      <<"1", "-", "2", "-", "3", ".", "x">>,
      <<"1", "2", "3", "4", ".", "x">>,
      <<"1", "-", "-", "2", "-", "3", "-", "4">>,
      <<"1", "-", "2", "-", "3", "-", "a">>,
      <<"1", "-", "2", "3", "4", "5", "-", "6", "-", "7">>,
      <<"1", "-", "2", "-", "3", "-", "4", "-", "5">> }

NoOut == [ip |-> <<>>, diag |-> "pending"]

\* one call of parseIPAddressFromHostname
Resolve ==
    /\ probeOut = NoOut
    /\ probeOut' = parseIPAddressFromHostname(probe)
    /\ UNCHANGED <<strictOctets, probe, handlerVars>>

-----------------------------------------------------------------------------
(* Specifications                                                          *)

InitHandler ==
    /\ pc = [r \in Requests |-> "idle"]
    /\ host = [r \in Requests |-> <<>>]
    /\ hostname = [r \in Requests |-> <<>>]
    /\ ipAddress = [r \in Requests |-> <<>>]
    /\ diag = [r \in Requests |-> NoDiag]
    /\ doc = [r \in Requests |-> NoDoc]
    /\ posts = [r \in Requests |-> 0]
    /\ apiResult = [r \in Requests |-> NoResult]
    /\ softSignal = [r \in Requests |-> "none"]
    /\ status = [r \in Requests |-> 0]
    /\ payload = [r \in Requests |-> NoPayload]
    /\ store = <<>>

Init ==
    /\ strictOctets \in BOOLEAN
    /\ probe = <<>>
    /\ probeOut = NoOut
    /\ InitHandler

Next == \E r \in Requests : Receive(r) \/ StoreCreate(r) \/ StoreFail(r) \/ Finish(r)

Spec == Init /\ [][Next]_vars

InitResolver ==
    /\ strictOctets \in BOOLEAN
    /\ (IsQuadProbe(probe) \/ probe \in OtherProbes)
    /\ probeOut = NoOut
    /\ InitHandler

NextResolver == Resolve

SpecResolver == InitResolver /\ [][NextResolver]_vars

-----------------------------------------------------------------------------
(* Vocabulary of the properties                                            *)

Done(r) == pc[r] = "done"

\* the store answered the create of r, and answered it with a JSON object
Answered(r) ==
    /\ pc[r] \in {"responded", "done"}
    /\ apiResult[r].err \in {"nil", "AlreadyExists"}
    /\ apiResult[r].err = "nil" => apiResult[r].body # "undecodable"

\* the requests whose create of an object named n has come back
Reached(n) ==
    {r \in Requests : pc[r] \in {"responded", "done"} /\ doc[r].metadata.name = n}

JsonPair(r) ==
    [kind |-> "json", ipAddress |-> ipAddress[r],
     hostname |-> extractHostnameFromRequest(host[r])]

\* a step changes the locals of at most one request
OneRequestPerStep ==
    \E r \in Requests : \A q \in Requests \ {r} :
        /\ pc'[q] = pc[q] /\ host'[q] = host[q] /\ hostname'[q] = hostname[q]
        /\ ipAddress'[q] = ipAddress[q] /\ diag'[q] = diag[q] /\ doc'[q] = doc[q]
        /\ posts'[q] = posts[q] /\ apiResult'[q] = apiResult[q]
        /\ softSignal'[q] = softSignal[q] /\ status'[q] = status[q]
        /\ payload'[q] = payload[q]

\* h[p] starts a digit group: a digit with no digit before it
GroupStart(h, p) == h[p] \in Digits /\ (p = 1 \/ h[p - 1] \notin Digits)

\* the last position of the digit group that starts at p
GroupEnd(h, p) ==
    CHOOSE q \in p..Len(h) :
        /\ \A k \in p..q : h[k] \in Digits
        /\ q = Len(h) \/ h[q + 1] \notin Digits

\* a delimiter follows position e and a digit follows the delimiter
Linked(h, e) == e + 2 <= Len(h) /\ h[e + 1] \in Delims /\ h[e + 2] \in Digits

\* the four whole digit groups, one delimiter apart, of which the first starts
\* at p; <<>> when there are no four
QuadAt(h, p) ==
    LET e1 == GroupEnd(h, p)
        e2 == GroupEnd(h, e1 + 2)
        e3 == GroupEnd(h, e2 + 2)
        e4 == GroupEnd(h, e3 + 2)
    IN  IF /\ Linked(h, e1)
           /\ Linked(h, e2)
           /\ Linked(h, e3)
        THEN <<SubSeq(h, p, e1), SubSeq(h, e1 + 2, e2), SubSeq(h, e2 + 2, e3),
               SubSeq(h, e3 + 2, e4)>>
        ELSE <<>>

QuadStarts(h) == {p \in 1..Len(h) : GroupStart(h, p) /\ QuadAt(h, p) # <<>>}

\* an octet written canonically: 0..255 without leading zeros
ValidOctet(g) == Len(g) <= 3 /\ (Len(g) = 1 \/ g[1] # "0") /\ Atoi(g) <= 255

ValidQuad(q) == q # <<>> /\ \A i \in 1..4 : ValidOctet(q[i])

Least(S) == CHOOSE p \in S : \A k \in S : p <= k

\* the canonical dotted-decimal text of four digit groups
Canonical(q) == Join([i \in 1..4 |-> Itoa(Atoi(q[i]))], ".")

\* the resolver answered probe with the canonical form of q, and that parses back
ResolvedTo(q) ==
    /\ probeOut = [ip |-> Canonical(q), diag |-> NoDiag]
    /\ \A i \in 1..Len(probeOut.ip) : probeOut.ip[i] \in Digits \cup {"."}
    /\ ParseIP(probeOut.ip) = [i \in 1..4 |-> Atoi(q[i])]

\* h contains a match of the digit-delimiter pattern: a digit, a delimiter, two
\* whole groups of 1..3 digits each followed by a delimiter, a digit
HasPattern(h) ==
    \E p \in 1..Len(h), l2 \in 1..3, l3 \in 1..3 :
        /\ p + l2 + l3 + 4 <= Len(h)
        /\ h[p] \in Digits
        /\ h[p + 1] \in Delims
        /\ \A k \in (p + 2)..(p + 1 + l2) : h[k] \in Digits
        /\ h[p + 2 + l2] \in Delims
        /\ \A k \in (p + 3 + l2)..(p + 2 + l2 + l3) : h[k] \in Digits
        /\ h[p + 3 + l2 + l3] \in Delims
        /\ h[p + 4 + l2 + l3] \in Digits

-----------------------------------------------------------------------------
(* Properties                                                              *)

\* C1: a request whose hostname does not resolve issues no create, builds no
\* document from the empty address, and is not answered with success.
C1_ShortCircuit ==
    \A r \in Requests :
        (pc[r] # "idle" /\ ipAddress[r] = <<>>) =>
            /\ posts[r] = 0
            /\ doc[r] = NoDoc
            /\ Done(r) => status[r] # StatusOK

\* C2: the answer is 200 with the JSON pair exactly when the create succeeded,
\* and 500 with a plain-text message exactly when serialization or the create failed.
C2_ResponseMatchesCreate ==
    \A r \in Requests :
        Done(r) =>
            /\ (status[r] = StatusOK /\ payload[r] = JsonPair(r)) <=> apiResult[r].err = "nil"
            /\ (status[r] = StatusInternalServerError /\ payload[r].kind = "text")
                   <=> apiResult[r].err # "nil"

\* C3 (state part): of two requests that resolved to the same address and whose
\* creates were both answered by the store, both issued one create for the
\* same name, exactly one got 200, the other 500, and the store holds exactly
\* one object of that name.
C3_OneWinner ==
    \A r1, r2 \in Requests :
        ( /\ r1 # r2
          /\ Done(r1) /\ Done(r2)
          /\ ipAddress[r1] # <<>> /\ ipAddress[r1] = ipAddress[r2]
          /\ Answered(r1) /\ Answered(r2)
          /\ Reached(doc[r1].metadata.name) = {r1, r2} ) =>
            /\ doc[r1].metadata.name = doc[r2].metadata.name
            /\ posts[r1] = 1 /\ posts[r2] = 1
            /\ {status[r1], status[r2]} = {StatusOK, StatusInternalServerError}
            /\ Count(store, doc[r1].metadata.name) = 1

C4_TransportStatusOnly ==
    \A r \in Requests :
        Done(r) => (status[r] = StatusInternalServerError <=> apiResult[r].err # "nil")

\* C5: no request issues more than one create, and once a create has failed the
\* request ends with its one error answer and issues nothing further.
C5_NoRetry ==
    [][\A r \in Requests :
          /\ posts'[r] <= 1
          /\ (pc[r] = "responded" /\ apiResult[r].err # "nil") =>
                /\ pc'[r] \in {"responded", "done"}
                /\ posts'[r] = posts[r]
                /\ pc'[r] = "done" =>
                      status'[r] = StatusInternalServerError /\ payload'[r].kind = "text"
          /\ Done(r) =>
                /\ Done(r)' /\ posts'[r] = posts[r]
                /\ status'[r] = status[r] /\ payload'[r] = payload[r]]_vars

C5_Witness ==
    \E r \in Requests :
        /\ Done(r) /\ apiResult[r].err \in Failures \cup {"AlreadyExists"}
        /\ posts[r] = 1 /\ status[r] = StatusInternalServerError

\* C6 as stated: whenever the hostname contains a valid quad, the resolver
\* returns the leftmost valid quad in canonical form.
C6_LeftmostValidQuad ==
    (probeOut # NoOut /\ \E p \in QuadStarts(probe) : ValidQuad(QuadAt(probe, p))) =>
        ResolvedTo(QuadAt(probe,
            Least({p \in QuadStarts(probe) : ValidQuad(QuadAt(probe, p))})))

\* C6 amended: when the leftmost four-group digit sequence of the hostname is a
\* valid quad (octets 0..255, no leading zeros), with any mix of the three
\* delimiters, the resolver returns its canonical dotted form, which parses
\* back to the same octets.
C6_FirstQuadValid ==
    (probeOut # NoOut /\ QuadStarts(probe) # {}
        /\ ValidQuad(QuadAt(probe, Least(QuadStarts(probe))))) =>
        ResolvedTo(QuadAt(probe, Least(QuadStarts(probe))))

C6_Witness ==
    /\ probeOut # NoOut
    /\ QuadStarts(probe) # {}
    /\ ValidQuad(QuadAt(probe, Least(QuadStarts(probe))))
    /\ \E i, j \in 1..Len(probe) : probe[i] = "_" /\ probe[j] = "-"
    /\ probe[1] \notin Digits
    /\ probeOut.ip # <<>>

\* C7: a hostname whose four-octet sequence has an octet above 255 resolves to
\* the empty result with the invalid-address diagnostic.
C7_OutOfRangeFails ==
    (probeOut # NoOut /\ QuadStarts(probe) # {}
        /\ \E i \in 1..4 : Atoi(QuadAt(probe, Least(QuadStarts(probe)))[i]) > 255) =>
        probeOut = [ip |-> <<>>, diag |-> AddressInvalid]

\* C8: a hostname without any digit-delimiter pattern resolves to the empty
\* result with the not-found diagnostic, and the invalid-address diagnostic is
\* printed only for a hostname that has a pattern.
C8_NotFound ==
    probeOut # NoOut =>
        /\ ~HasPattern(probe) => probeOut = [ip |-> <<>>, diag |-> AddressNotFound]
        /\ probeOut.diag = AddressInvalid => (HasPattern(probe) /\ probeOut.ip = <<>>)
        /\ probeOut.diag \in {AddressNotFound, AddressInvalid, NoDiag}
        /\ AddressNotFound # AddressInvalid

C8_Witness ==
    /\ probeOut = [ip |-> <<>>, diag |-> AddressNotFound]
    /\ \E i, j \in 1..Len(probe) : probe[i] \in Digits /\ probe[j] \in Delims

\* C9: in every document built, the ingress backend's service name, the service's
\* own name and both kubernetes.io/service-name labels are one string, derived
\* from the same normalized address as the resource name.
C9_ServiceNamesAgree ==
    \A r \in Requests :
        pc[r] # "idle" =>
            LET d  == doc[r]
                sn == d.spec.services.name
            IN  /\ d.spec.ingresses.rules[1].http.paths[1].backend.service.name = sn
                /\ d.spec.endpointSlices.labels[ServiceNameLabel] = sn
                /\ d.spec.services.labels[ServiceNameLabel] = sn
                /\ sn = d.metadata.name \o SvcSuffix
                /\ d.metadata.name = NamePrefix \o
                       [i \in 1..Len(ipAddress[r]) |->
                           IF ipAddress[r][i] = "." THEN "-" ELSE ipAddress[r][i]]

C9_Witness ==
    \E r \in Requests :
        /\ pc[r] = "posting" /\ ipAddress[r] # <<>>
        /\ doc[r].spec.services.name = NamePrefix \o svcFriendlyIp(ipAddress[r]) \o SvcSuffix

\* C10 as stated: the one ingress rule's host is the hostname of the request,
\* the string also returned to the caller.
C10_HostIsHostname ==
    \A r \in Requests :
        pc[r] # "idle" =>
            /\ Len(doc[r].spec.ingresses.rules) = 1
            /\ doc[r].spec.ingresses.rules[1].host = hostname[r]
            /\ (Done(r) /\ status[r] = StatusOK) =>
                   payload[r].hostname = doc[r].spec.ingresses.rules[1].host

\* C10 amended: the one ingress rule's host is the request hostname with every
\* '_' turned into '-'; it equals the hostname returned to the caller exactly
\* when that hostname has no '_'.
C10_HostIsFriendlyHostname ==
    \A r \in Requests :
        pc[r] # "idle" =>
            LET rules == doc[r].spec.ingresses.rules
                hn    == extractHostnameFromRequest(host[r])
            IN  /\ Len(rules) = 1
                /\ Len(rules[1].host) = Len(hn)
                /\ \A i \in 1..Len(hn) :
                       rules[1].host[i] = (IF hn[i] = "_" THEN "-" ELSE hn[i])
                /\ (Done(r) /\ status[r] = StatusOK) =>
                       /\ payload[r].hostname = hn
                       /\ (payload[r].hostname = rules[1].host
                              <=> \A i \in 1..Len(hn) : hn[i] # "_")

C10_Witness ==
    \E r \in Requests :
        /\ Done(r) /\ status[r] = StatusOK
        /\ \E i \in 1..Len(hostname[r]) : hostname[r][i] = "_"
        /\ payload[r].hostname # doc[r].spec.ingresses.rules[1].host

\* the three names of the document a request submitted
Names(r) ==
    <<doc[r].metadata.name, doc[r].spec.services.name, doc[r].spec.ingresses.name>>

\* C11: across any two requests the submitted resource name, service name and
\* ingress name are identical exactly when the two requests resolved to the same
\* address; the address can be read back from the resource name; and the store
\* never holds two objects of one name or one name for two addresses.
C11_NamingInjective ==
    /\ \A r1, r2 \in Requests :
          (pc[r1] # "idle" /\ pc[r2] # "idle") =>
              /\ Names(r1)[1] = Names(r2)[1] <=> ipAddress[r1] = ipAddress[r2]
              /\ Names(r1)[2] = Names(r2)[2] <=> ipAddress[r1] = ipAddress[r2]
              /\ Names(r1)[3] = Names(r2)[3] <=> ipAddress[r1] = ipAddress[r2]
    /\ \A r \in Requests :
          pc[r] # "idle" =>
              LET n == doc[r].metadata.name
              IN  /\ Len(n) = Len(NamePrefix) + Len(ipAddress[r])
                  /\ \A i \in 1..Len(ipAddress[r]) :
                         ipAddress[r][i] =
                             (IF n[Len(NamePrefix) + i] = "-" THEN "."
                              ELSE n[Len(NamePrefix) + i])
    /\ \A i, j \in 1..Len(store) :
          store[i].metadata.name = store[j].metadata.name =>
              /\ i = j
              /\ store[i].spec.endpointSlices.endpoints = store[j].spec.endpointSlices.endpoints

C11_Witness ==
    \E r1, r2 \in Requests :
        /\ Done(r1) /\ Done(r2)
        /\ ipAddress[r1] # <<>> /\ ipAddress[r2] # <<>>
        /\ ipAddress[r1] # ipAddress[r2]
        /\ Names(r1)[1] # Names(r2)[1]
        /\ status[r1] = StatusOK /\ status[r2] = StatusOK
        /\ Len(store) = 2

====
